---- MODULE Spec2Model ----
(***************************************************************************)
(* Model of the Alfie integration sync (src/unnamed/part_001): the         *)
(* reconciliation cycle syncAlfieIntegrationsOnce, the state store          *)
(* readState/writeState, and the scheduler                                  *)
(* startAlfieIntegrationSyncIfEnabled.  One action per await point of the   *)
(* async functions; the synchronous code between two awaits is one step.    *)
(* The UI's loadOrCreateInstanceId (src/ui/src/ui/instance-id.ts) is a      *)
(* separate specification, UiSpec.                                          *)
(***************************************************************************)
EXTENDS Integers, Sequences, FiniteSets, TLC

(* ------------------------------ bounds -------------------------------- *)

\* Longest account list a snapshot carries.
MaxAccounts == 2
\* Number of cycles that may be in flight at once (timer ticks overlap).
MaxInFlight == 2
\* Number of calls of loadOrCreateInstanceId.
MaxCalls == 3

(* --------------------------- value domains ---------------------------- *)

Cycles == 1..MaxInFlight

Null == "null"
NoVersion == "undefined"

Versions == {"v1", "v2"}
Stamps == {"T1", "T2"}

\* Strings that are trimmed or lower-cased are sequences of characters.
Space == " "
RawEmails == { <<"a">>, <<" ", "A", " ">>, <<"b">>, <<" ">> }
EnvStrings == { <<>>, <<" ">>, <<"u">> }
ClientValues == { Null, "", "cid" }

(* ------------------------- string operations -------------------------- *)

\* String.prototype.toLowerCase on one character.
LowerChar(ch) ==
  IF ch = "A" THEN "a" ELSE IF ch = "B" THEN "b" ELSE ch

ToLowerCase(s) == [i \in 1..Len(s) |-> LowerChar(s[i])]

RECURSIVE TrimStart(_)
TrimStart(s) ==
  IF s # <<>> /\ Head(s) = Space THEN TrimStart(Tail(s)) ELSE s

RECURSIVE TrimEnd(_)
TrimEnd(s) ==
  IF s # <<>> /\ s[Len(s)] = Space THEN TrimEnd(SubSeq(s, 1, Len(s) - 1)) ELSE s

\* String.prototype.trim
Trim(s) == TrimEnd(TrimStart(s))

\* A normalization that trims but keeps the case.
NormalizeEmailKeepingCase(raw) == Trim(raw)

\* acct.email.trim().toLowerCase()
NormalizeEmail(raw) == ToLowerCase(Trim(raw))

(* ------------------------------ snapshot ------------------------------ *)

RawAccounts == [email : RawEmails, updatedAtIso : Stamps]

AccountLists == UNION { [1..n -> RawAccounts] : n \in 0..MaxAccounts }

\* Values AlfieIntegrationSnapshotSchema accepts for integrations.google,
\* apart from the accounts.
GoogleConfigs ==
  [configured : BOOLEAN, clientId : ClientValues, clientSecret : ClientValues]

\* What the HTTP request of fetchIntegrationSnapshot can come back with.
FetchOutcomes == {"neterr", "http", "badjson", "schema", "ok"}

RECURSIVE FilterNonEmpty(_)
FilterNonEmpty(accts) ==
  IF accts = <<>> THEN <<>>
  ELSE IF Head(accts).email # <<>>
       THEN <<Head(accts)>> \o FilterNonEmpty(Tail(accts))
       ELSE FilterNonEmpty(Tail(accts))

\* google.accounts.map(normalize email).filter(Boolean(email))
NormalizeAccounts(accts) ==
  FilterNonEmpty([i \in 1..Len(accts) |->
    [email |-> NormalizeEmail(accts[i].email),
     updatedAtIso |-> accts[i].updatedAtIso]])

\* A check that forgets the client secret.
GoogleUnusableIgnoringSecret(google) ==
  \/ ~google.configured
  \/ google.clientId \in {Null, ""}

\* !google.configured || !google.clientId || !google.clientSecret
GoogleUnusable(google) ==
  \/ ~google.configured
  \/ google.clientId \in {Null, ""}
  \/ google.clientSecret \in {Null, ""}

\* Whether normalization left every email of the list as it was received.
Canonical(accts) ==
  \A i \in 1..Len(accts) :
    NormalizeEmail(accts[i].email) \in {accts[i].email, <<>>}

(* ------------------------------- state -------------------------------- *)

\* AlfieIntegrationsState: the google map is a function whose domain is the
\* set of keys present.
EmptyState == [version |-> NoVersion, google |-> <<>>]

\* A file on disk: absent, a complete JSON document, or bytes that do not
\* parse (truncated by an open, or a mix of two writers' bytes).
AbsentFile == [kind |-> "absent", data |-> EmptyState]
PartialFile == [kind |-> "partial", data |-> EmptyState]
JsonFile(st) == [kind |-> "json", data |-> st]

\* readState: a missing file, or one that does not parse, reads as {}.
ParseState(file) ==
  IF file.kind = "json" THEN file.data ELSE EmptyState

\* googleState[acct.email]?.updatedAtIso ?? ""
PrevStamp(g, email) == IF email \in DOMAIN g THEN g[email] ELSE ""

\* the negation of: prev && prev === acct.updatedAtIso
NeedsImport(g, acct) ==
  ~(PrevStamp(g, acct.email) # "" /\ PrevStamp(g, acct.email) = acct.updatedAtIso)

\* An assignment that keeps no other entry of the map.
AdvanceMarkDroppingOthers(g, acct) ==
  [k \in {acct.email} |-> acct.updatedAtIso]

\* googleState[acct.email] = { updatedAtIso: acct.updatedAtIso }
AdvanceMark(g, acct) ==
  [k \in (DOMAIN g) \cup {acct.email} |->
    IF k = acct.email THEN acct.updatedAtIso ELSE g[k]]

\* A test that looks at `changed` only.
ShouldPersistOnChangeOnly(ch, st, version) == ch

\* changed || state.version !== snapshot.version
ShouldPersist(ch, st, version) == ch \/ st.version # version

\* { ...state, version: snapshot.version, google: googleState, syncedAtIso }
NextState(st, version, g) == [version |-> version, google |-> g]

(* ----------------------------- variables ------------------------------ *)

VARIABLES
  env,        \* process.env and hasBinary("gog"), fixed for the process
  remote,     \* the remote API: whether its snapshot is steady, and which
  sched,      \* position of startAlfieIntegrationSyncIfEnabled
  pc,         \* per cycle: the await the cycle is suspended at
  fout,       \* per cycle: what the request came back with
  snap,       \* per cycle: snapshot.version and the normalized accounts
  rd,         \* per cycle: `state`, the value readState returned
  gs,         \* per cycle: `googleState`
  changed,    \* per cycle: `changed`
  idx,        \* per cycle: index of `acct` in the for loop
  res,        \* per cycle: what happened to each account so far
  nxt,        \* per cycle: `next`, the argument of writeState
  did,        \* per cycle: external effects performed so far
  fd,         \* per cycle: where the inode opened by fs.writeFile lives now
  alone,      \* per cycle: no other cycle was in flight during this one
  stateFile,  \* integrations.json
  tmpFile,    \* integrations.json.tmp
  credsFile,  \* gogcli/credentials.json
  last,       \* the cycle that settled just before, when both ran alone
              \* on the same normalized snapshot
  gogStore,     \* the tokens gog has imported, where a specification
                \* follows them
  localStorage, \* the UI's localStorage item at STORAGE_KEY
  stored0,      \* that item when the page was loaded
  calls         \* the calls of loadOrCreateInstanceId so far

cycleVars == <<pc, fout, snap, rd, gs, changed, idx, res, nxt, did, fd, alone>>
fileVars == <<stateFile, tmpFile, credsFile>>
uiVars == <<localStorage, stored0, calls>>
vars == <<env, remote, sched, cycleVars, fileVars, last, gogStore, uiVars>>

NoSnap == [version |-> NoVersion, accounts |-> <<>>, canonical |-> TRUE]
NoLast == [kind |-> "none", snap |-> NoSnap, res |-> <<>>, ok |-> FALSE]
NoGoogle == [configured |-> FALSE, clientId |-> Null, clientSecret |-> Null]
NoFetch == [kind |-> "none", snap |-> NoSnap, google |-> NoGoogle, blank |-> FALSE]

Set(f, c, v) == [f EXCEPT ![c] = v]

Quiet == \A c \in Cycles : pc[c] = "idle"

(* ------------------------------- Init --------------------------------- *)

Envs ==
  [alfieMode : BOOLEAN, apiUrl : EnvStrings, gatewayToken : EnvStrings,
   gog : BOOLEAN]

\* A localStorage item: absent (getItem returns null), or a string.
NoItem == [has |-> FALSE, text |-> <<>>]
Item(s) == [has |-> TRUE, text |-> s]

\* The UI is not part of the gateway process: no page is open.
NoPage ==
  /\ localStorage = NoItem
  /\ stored0 = NoItem
  /\ calls = <<>>

\* The gateway process at its start.
GatewayInit(steady) ==
  /\ env \in Envs
  /\ remote = [steady |-> steady, resp |-> NoFetch]
  /\ sched = "unstarted"
  /\ pc = [c \in Cycles |-> "idle"]
  /\ fout = [c \in Cycles |-> NoFetch]
  /\ snap = [c \in Cycles |-> NoSnap]
  /\ rd = [c \in Cycles |-> EmptyState]
  /\ gs = [c \in Cycles |-> <<>>]
  /\ changed = [c \in Cycles |-> FALSE]
  /\ idx = [c \in Cycles |-> 0]
  /\ res = [c \in Cycles |-> <<>>]
  /\ nxt = [c \in Cycles |-> EmptyState]
  /\ did = [c \in Cycles |-> {}]
  /\ fd = [c \in Cycles |-> "none"]
  /\ alone = [c \in Cycles |-> FALSE]
  /\ stateFile = AbsentFile
  /\ tmpFile = AbsentFile
  /\ credsFile = "absent"
  /\ last = NoLast

\* gog's token store: per email the updatedAtIso of the entry whose token
\* it holds, and every entry it has imported so far.  Its content has no
\* influence on the gateway; a specification follows the one (`traced` is
\* "holds"), the other ("done") or neither ("none").
GogStore(traced) == [traced |-> traced, holds |-> <<>>, done |-> {}]

InitWith(steady) ==
  NoPage /\ GatewayInit(steady) /\ gogStore = GogStore("none")

\* The remote may change its snapshot between two requests.
Init == InitWith(FALSE)

\* The remote holds one snapshot for the life of the process.
SteadyInit == InitWith(TRUE)

(* ------------------- syncAlfieIntegrationsOnce: gates ----------------- *)

\* Gates that do not look for the gog binary.
GatesOpenWithoutBinary(e) ==
  /\ e.alfieMode
  /\ Trim(e.apiUrl) # <<>>
  /\ Trim(e.gatewayToken) # <<>>

\* The four early returns before the snapshot is fetched.
GatesOpen(e) ==
  /\ e.alfieMode
  /\ Trim(e.apiUrl) # <<>>
  /\ Trim(e.gatewayToken) # <<>>
  /\ e.gog

\* A call of syncAlfieIntegrationsOnce, up to its first await.  It takes the
\* first free slot c: the slots only name the calls in flight.
Begin(c) ==
  /\ pc[c] = "idle"
  /\ \A d \in Cycles : d < c => pc[d] # "idle"
  /\ IF GatesOpen(env)
       THEN /\ pc' = Set(pc, c, "fetch")
            /\ did' = Set(did, c, {"fetch"})
       ELSE /\ pc' = Set(pc, c, "resolved")
            /\ did' = Set(did, c, {})
  /\ alone' = [d \in Cycles |-> IF d = c THEN Quiet ELSE FALSE]
  /\ last' = IF Quiet THEN last ELSE NoLast
  /\ UNCHANGED <<fout, snap, rd, gs, changed, idx, res, nxt, fd>>
  /\ UNCHANGED <<uiVars, gogStore, env, remote, fileVars>>

(* ----------------------------- scheduler ------------------------------ *)

\* startAlfieIntegrationSyncIfEnabled up to the await of the initial run.
Start ==
  /\ sched = "unstarted"
  /\ IF ~env.alfieMode
       THEN /\ sched' = "off"
            /\ UNCHANGED <<uiVars, gogStore, env, remote, cycleVars, fileVars, last>>
       ELSE /\ sched' = "initial"
            /\ Begin(1)

\* The setInterval callback: nothing looks at the cycles in flight.
Tick(c) ==
  /\ sched = "timer"
  /\ Begin(c)
  /\ UNCHANGED sched

\* Another caller of the exported syncAlfieIntegrationsOnce, which awaits it.
DirectCall(c) ==
  /\ sched = "off"
  /\ Quiet
  /\ Begin(c)
  /\ UNCHANGED sched

(* ------------------- syncAlfieIntegrationsOnce: fetch ----------------- *)

\* What the cycle keeps of a snapshot that passed the checks.
Kept(version, raw) ==
  [version |-> version, accounts |-> NormalizeAccounts(raw),
   canonical |-> Canonical(raw)]

\* How the code between the fetch and ensureGogClientCredentials ends for a
\* parsed snapshot: one of two early returns ("unusable", "empty"), or the
\* cycle goes on with the normalized accounts.  `google` and `blank` (every
\* email received consists of white space only) record what was received.
Respond(google, version, raw) ==
  LET accounts == NormalizeAccounts(raw)
      blank == \A i \in 1..Len(raw) : \A k \in 1..Len(raw[i].email) :
                 raw[i].email[k] = Space
  IN [kind |-> IF GoogleUnusable(google) THEN "unusable"
               ELSE IF Len(accounts) = 0 THEN "empty" ELSE "ok",
      snap |-> IF GoogleUnusable(google) \/ Len(accounts) = 0
               THEN NoSnap ELSE Kept(version, raw),
      google |-> google,
      blank |-> blank]

\* Every snapshot the schema accepts, seen through that code.
Responses ==
  { Respond(google, version, raw) :
      google \in GoogleConfigs, version \in Versions, raw \in AccountLists }

\* A request that did not come back with a parsed snapshot.
Failed(o) == [kind |-> o, snap |-> NoSnap, google |-> NoGoogle, blank |-> FALSE]

\* The remote answers with this snapshot: any, or the one it holds steadily.
Serves(r) ==
  \/ ~remote.steady
  \/ remote.resp.kind = "none"
  \/ remote.resp = r

Served(r) ==
  IF remote.steady /\ remote.resp.kind = "none"
    THEN [steady |-> TRUE, resp |-> r]
    ELSE remote

\* The link to the previous cycle survives only on the same snapshot.
SameSnapshot(a, b) == a.version = b.version /\ a.accounts = b.accounts

\* await fetchIntegrationSnapshot(...) comes back, then the synchronous code
\* up to the await inside ensureGogClientCredentials.  A rejected fetch()
\* (network failure, AbortSignal.timeout) is outside any try block.
FetchDone(c) ==
  /\ pc[c] = "fetch"
  /\ \E o \in FetchOutcomes :
       IF o = "neterr"
         THEN /\ pc' = Set(pc, c, "rejected")
              /\ fout' = Set(fout, c, Failed(o))
              /\ UNCHANGED <<snap, remote>>
              /\ last' = NoLast
       ELSE IF o # "ok"
         THEN /\ pc' = Set(pc, c, "resolved")
              /\ fout' = Set(fout, c, Failed(o))
              /\ UNCHANGED <<snap, remote>>
              /\ last' = NoLast
       ELSE \E r \in Responses :
              /\ Serves(r)
              /\ remote' = Served(r)
              /\ fout' = Set(fout, c, r)
              /\ IF r.kind = "ok"
                   THEN /\ pc' = Set(pc, c, "creds")
                        /\ snap' = Set(snap, c, r.snap)
                        /\ last' = IF SameSnapshot(last.snap, r.snap)
                                     THEN last ELSE NoLast
                   ELSE /\ pc' = Set(pc, c, "resolved")
                        /\ UNCHANGED snap
                        /\ last' = NoLast
  /\ UNCHANGED <<rd, gs, changed, idx, res, nxt, did, fd, alone>>
  /\ UNCHANGED <<uiVars, gogStore, env, sched, fileVars>>

\* await ensureGogClientCredentials(...): the file is written, or an fs call
\* throws and the cycle rejects.
CredsDone(c) ==
  /\ pc[c] = "creds"
  /\ \E ok \in BOOLEAN :
       IF ok
         THEN /\ credsFile' = "written"
              /\ did' = Set(did, c, did[c] \cup {"creds"})
              /\ pc' = Set(pc, c, "read")
         ELSE /\ pc' = Set(pc, c, "rejected")
              /\ UNCHANGED <<credsFile, did>>
  /\ UNCHANGED <<fout, snap, rd, gs, changed, idx, res, nxt, fd, alone>>
  /\ UNCHANGED <<uiVars, gogStore, env, remote, sched, stateFile, tmpFile, last>>

(* ----------------- syncAlfieIntegrationsOnce: the loop ---------------- *)

\* The for loop from account i on, as far as it runs without awaiting: the
\* accounts that are skipped, up to the first one that needs an import.
RECURSIVE Scan(_, _, _, _)
Scan(accounts, g, i, r) ==
  IF i > Len(accounts) THEN [idx |-> i, res |-> r]
  ELSE IF NeedsImport(g, accounts[i]) THEN [idx |-> i, res |-> r]
  ELSE Scan(accounts, g, i + 1, Append(r, "skip"))

\* Resume the loop at account i with googleState g: suspend at the next
\* import, or leave the loop and either call writeState or return.
Continue(c, st, g, ch, i, r) ==
  LET sc == Scan(snap[c].accounts, g, i, r) IN
  /\ gs' = Set(gs, c, g)
  /\ changed' = Set(changed, c, ch)
  /\ idx' = Set(idx, c, sc.idx)
  /\ res' = Set(res, c, sc.res)
  /\ IF sc.idx <= Len(snap[c].accounts)
       THEN /\ pc' = Set(pc, c, "import")
            /\ did' = Set(did, c, did[c] \cup {"import"})
            /\ UNCHANGED nxt
     ELSE IF ShouldPersist(ch, st, snap[c].version)
       THEN /\ pc' = Set(pc, c, "wopen")
            /\ nxt' = Set(nxt, c, NextState(st, snap[c].version, g))
            /\ UNCHANGED did
     ELSE /\ pc' = Set(pc, c, "resolved")
          /\ UNCHANGED <<nxt, did>>

\* await readState() comes back.
ReadDone(c) ==
  /\ pc[c] = "read"
  /\ LET st == ParseState(stateFile) IN
       /\ rd' = Set(rd, c, st)
       /\ Continue(c, st, st.google, FALSE, 1, <<>>)
  /\ UNCHANGED <<fout, snap, fd, alone>>
  /\ UNCHANGED <<uiVars, gogStore, env, remote, sched, fileVars, last>>

\* A loop that takes a failed import for a successful one and back.
AfterImportInverted(g, acct, ok) == IF ok THEN g ELSE AdvanceMark(g, acct)

\* A loop that records the watermark whatever the import returned.
AfterImportIgnoringResult(g, acct, ok) == AdvanceMark(g, acct)

\* googleState after the import of acct: `continue` on !result.ok, the
\* assignment otherwise.
AfterImport(g, acct, ok) == IF ok THEN AdvanceMark(g, acct) ELSE g

\* A loop that passes over the account after an imported one.
ResumeSkippingNext(accounts, i, ok) == i + 2

\* A loop that a failed import ends (`break` in the place of `continue`).
ResumeBreakingOnFailure(accounts, i, ok) ==
  IF ok THEN i + 1 ELSE Len(accounts) + 1

\* The account the loop goes on with after the import of account i: the
\* next one, whether the import failed (`continue`) or not.
Resume(accounts, i, ok) == i + 1

\* gog auth tokens import: on exit code 0 the store holds the token of the
\* entry for its email.
GogImport(store, acct, ok) ==
  IF ~ok THEN store
  ELSE IF store.traced = "holds"
    THEN [store EXCEPT !.holds = AdvanceMark(store.holds, acct)]
  ELSE IF store.traced = "done"
    THEN [store EXCEPT !.done = @ \cup {<<acct.email, acct.updatedAtIso>>}]
  ELSE store

\* await importGogRefreshToken(...) comes back: exit code 0, or anything
\* else (non-zero exit, timeout).
ImportDone(c) ==
  /\ pc[c] = "import"
  /\ LET acct == snap[c].accounts[idx[c]] IN
     \E ok \in BOOLEAN :
       /\ Continue(c, rd[c], AfterImport(gs[c], acct, ok), changed[c] \/ ok,
                   Resume(snap[c].accounts, idx[c], ok),
                   Append(res[c], IF ok THEN "ok" ELSE "fail"))
       /\ gogStore' = GogImport(gogStore, acct, ok)
  /\ UNCHANGED <<fout, snap, rd, fd, alone>>
  /\ UNCHANGED <<uiVars, env, remote, sched, fileVars, last>>

(* ------------------------------ writeState ---------------------------- *)

\* Bytes of a JSON document grow with the number of entries of its map.
Size(file) == Cardinality(DOMAIN file.data.google)

\* Writing `next` from offset 0 into an inode this writer truncated when it
\* opened it: if another writer has filled the inode since with a longer
\* document, the tail of that document stays behind.
Overwrite(old, st) ==
  IF old.kind = "json" /\ Size(old) > Size(JsonFile(st))
    THEN PartialFile
    ELSE JsonFile(st)

\* await fs.mkdir(...), then fs.writeFile(tmpPath, ...) opens the temporary
\* file, creating or truncating it; or the open fails and writeState throws.
WriteOpen(c) ==
  /\ pc[c] = "wopen"
  /\ \E ok \in BOOLEAN :
       IF ok
         THEN /\ tmpFile' = PartialFile
              /\ fd' = Set(fd, c, "tmp")
              /\ did' = Set(did, c, did[c] \cup {"tmp"})
              /\ pc' = Set(pc, c, "wdata")
         ELSE /\ pc' = Set(pc, c, "rejected")
              /\ UNCHANGED <<tmpFile, fd, did>>
  /\ UNCHANGED <<fout, snap, rd, gs, changed, idx, res, nxt, alone>>
  /\ UNCHANGED <<uiVars, gogStore, env, remote, sched, stateFile, credsFile, last>>

\* fs.writeFile writes the document into the inode it opened and closes it,
\* wherever a rename has moved that inode since; or the write fails (disk
\* full) and writeState throws, leaving what the open left.
WriteData(c) ==
  /\ pc[c] = "wdata"
  /\ \E ok \in BOOLEAN :
       IF ok
         THEN /\ tmpFile' = IF fd[c] = "tmp"
                              THEN Overwrite(tmpFile, nxt[c]) ELSE tmpFile
              /\ stateFile' = IF fd[c] = "file"
                                THEN Overwrite(stateFile, nxt[c]) ELSE stateFile
              /\ pc' = Set(pc, c, "wrename")
         ELSE /\ pc' = Set(pc, c, "rejected")
              /\ UNCHANGED <<tmpFile, stateFile>>
  /\ fd' = Set(fd, c, "none")
  /\ UNCHANGED <<fout, snap, rd, gs, changed, idx, res, nxt, did, alone>>
  /\ UNCHANGED <<uiVars, gogStore, env, remote, sched, credsFile, last>>

\* await fs.chmod(tmpPath), await fs.rename(tmpPath, filePath), await
\* fs.chmod(filePath).  The chmods change permission bits only; the first
\* fails (ENOENT) exactly when the rename after it would, the second cannot
\* fail once the rename is done.  The rename puts the temporary file's inode
\* in the place of the state file's, whatever it holds at that moment; the
\* descriptors other writers hold follow their inode.
Rename(c) ==
  /\ pc[c] = "wrename"
  /\ IF tmpFile.kind = "absent"
       THEN /\ pc' = Set(pc, c, "rejected")
            /\ UNCHANGED <<stateFile, tmpFile, fd, did>>
       ELSE /\ stateFile' = tmpFile
            /\ tmpFile' = AbsentFile
            /\ fd' = [d \in Cycles |->
                        IF fd[d] = "tmp" THEN "file"
                        ELSE IF fd[d] = "file" THEN "gone" ELSE fd[d]]
            /\ did' = Set(did, c, did[c] \cup {"rename"})
            /\ pc' = Set(pc, c, "resolved")
  /\ UNCHANGED <<fout, snap, rd, gs, changed, idx, res, nxt, alone>>
  /\ UNCHANGED <<uiVars, gogStore, env, remote, sched, credsFile, last>>

(* ------------------------ the caller's continuation ------------------- *)

\* What the settled cycle leaves for the formulas about two runs in a row.
Summary(c) ==
  IF alone[c] /\ fout[c].kind = "ok" /\ Len(res[c]) = Len(snap[c].accounts)
    THEN [kind |-> "run", snap |-> snap[c], res |-> res[c],
          ok |-> pc[c] = "resolved"]
    ELSE NoLast

\* A scheduler without the try/catch and the .catch: a rejected cycle is an
\* unhandled rejection, which ends the process.
AfterSettleUncaught(s, outcome) ==
  IF outcome = "rejected" THEN "crashed"
  ELSE IF s = "initial" THEN "timer" ELSE s

\* The scheduler after a cycle settled with `outcome`: the try/catch around
\* the initial run logs a rejection and setInterval is armed; the .catch of
\* a timer run logs it and the timer stays armed.
AfterSettle(s, outcome) == IF s = "initial" THEN "timer" ELSE s

\* The promise of the cycle settles and its caller goes on: the scheduler,
\* or the direct caller.
Settle(c) ==
  /\ pc[c] \in {"resolved", "rejected"}
  /\ sched' = AfterSettle(sched, pc[c])
  /\ last' = Summary(c)
  /\ pc' = Set(pc, c, "idle")
  /\ fout' = Set(fout, c, NoFetch)
  /\ snap' = Set(snap, c, NoSnap)
  /\ rd' = Set(rd, c, EmptyState)
  /\ gs' = Set(gs, c, <<>>)
  /\ changed' = Set(changed, c, FALSE)
  /\ idx' = Set(idx, c, 0)
  /\ res' = Set(res, c, <<>>)
  /\ nxt' = Set(nxt, c, EmptyState)
  /\ did' = Set(did, c, {})
  /\ alone' = Set(alone, c, FALSE)
  /\ UNCHANGED <<uiVars, gogStore, env, remote, fd, fileVars>>

(* ------------------------------- Spec --------------------------------- *)

\* A timer tick that finds the previous cycle settled: the cycle took less
\* than the interval.
TickQuiet(c) == Quiet /\ Tick(c)

\* Spec: the remote may answer every request with another snapshot, and
\* every cycle settles before the next tick.
Next ==
  \/ Start
  \/ \E c \in Cycles : TickQuiet(c)
  \/ \E c \in Cycles : DirectCall(c)
  \/ \E c \in Cycles : FetchDone(c)
  \/ \E c \in Cycles : CredsDone(c)
  \/ \E c \in Cycles : ReadDone(c)
  \/ \E c \in Cycles : ImportDone(c)
  \/ \E c \in Cycles : WriteOpen(c)
  \/ \E c \in Cycles : WriteData(c)
  \/ \E c \in Cycles : Rename(c)
  \/ \E c \in Cycles : Settle(c)

Spec == Init /\ [][Next]_vars

\* OverlapSpec: the timer fires whatever is in flight, as setInterval does;
\* the remote holds one snapshot for the life of the process.
OverlapNext ==
  \/ Start
  \/ \E c \in Cycles : Tick(c)
  \/ \E c \in Cycles : DirectCall(c)
  \/ \E c \in Cycles : FetchDone(c)
  \/ \E c \in Cycles : CredsDone(c)
  \/ \E c \in Cycles : ReadDone(c)
  \/ \E c \in Cycles : ImportDone(c)
  \/ \E c \in Cycles : WriteOpen(c)
  \/ \E c \in Cycles : WriteData(c)
  \/ \E c \in Cycles : Rename(c)
  \/ \E c \in Cycles : Settle(c)

OverlapSpec == SteadyInit /\ [][OverlapNext]_vars

\* LiveSpec: cycles settle before the next tick and the remote holds one
\* snapshot.  Every await comes back (the request and the import carry a
\* timeout, the file operations complete or fail), the caller's continuation
\* runs, and an armed interval timer fires again.
Step ==
  \E c \in Cycles :
    \/ FetchDone(c) \/ CredsDone(c) \/ ReadDone(c) \/ ImportDone(c)
    \/ WriteOpen(c) \/ WriteData(c) \/ Rename(c) \/ Settle(c)

LiveSpec ==
  /\ SteadyInit
  /\ [][Next]_vars
  /\ WF_vars(Step)
  /\ WF_vars(\E c \in Cycles : TickQuiet(c))

\* ToolSpec: Spec, with the tokens gog holds followed.
ToolInit == NoPage /\ GatewayInit(FALSE) /\ gogStore = GogStore("holds")

ToolSpec == ToolInit /\ [][Next]_vars

\* LedgerSpec: Spec, with every entry gog has imported followed.
LedgerInit == NoPage /\ GatewayInit(FALSE) /\ gogStore = GogStore("done")

LedgerSpec == LedgerInit /\ [][Next]_vars

(* ---------------------- ui: loadOrCreateInstanceId -------------------- *)

\* What localStorage may hold at STORAGE_KEY when the page is loaded.
StoredItems ==
  { NoItem, Item(<<>>), Item(<<" ">>), Item(<<"x">>), Item(<<" ", "x", " ">>) }

\* Values generateUUID returns.
Uuids == { <<"p">>, <<"q">>, <<"r">> }

\* A lookup that never finds the stored id.
StoredNever(item) == <<>>

\* typeof raw === "string" ? raw.trim() : ""
Stored(item) == IF item.has THEN Trim(item.text) ELSE <<>>

\* One call of loadOrCreateInstanceId, which runs to its return without
\* yielding.  getItem and setItem may throw; both throws are swallowed.
LoadOrCreateInstanceId ==
  /\ Len(calls) < MaxCalls
  /\ \E getOk \in BOOLEAN, setOk \in BOOLEAN, created \in Uuids :
       LET found == IF getOk THEN localStorage ELSE NoItem
           stored == Stored(found)
       IN IF stored # <<>>
            THEN /\ calls' = Append(calls,
                       [get |-> "ok", found |-> found,
                        returned |-> stored, set |-> "none"])
                 /\ UNCHANGED localStorage
            ELSE /\ localStorage' = IF setOk THEN Item(created) ELSE localStorage
                 /\ calls' = Append(calls,
                       [get |-> IF getOk THEN "ok" ELSE "threw",
                        found |-> found,
                        returned |-> created,
                        set |-> IF setOk THEN "ok" ELSE "threw"])
  /\ UNCHANGED <<stored0, gogStore, env, remote, sched, cycleVars, fileVars, last>>

\* UiSpec: a page of the UI, with whatever localStorage held before.
UiInit ==
  /\ GatewayInit(TRUE)
  /\ gogStore = GogStore("none")
  /\ env = [alfieMode |-> FALSE, apiUrl |-> <<>>, gatewayToken |-> <<>>,
            gog |-> FALSE]
  /\ localStorage \in StoredItems
  /\ stored0 = localStorage
  /\ calls = <<>>

UiNext == LoadOrCreateInstanceId

UiSpec == UiInit /\ [][UiNext]_vars

(* ------------------------ vocabulary of the claims -------------------- *)

\* The emails of a normalized account list.
Emails(accounts) == { accounts[i].email : i \in 1..Len(accounts) }

\* The watermark a google map holds for an email ("" when it holds none).
Mark(g, e) == PrevStamp(g, e)

\* The watermark the state file holds for an email.
FileMark(e) == Mark(ParseState(stateFile).google, e)

\* Cycle c has read the state and is past the loop over the accounts.
LeftLoop(c) == "creds" \in did[c] /\ pc[c] \notin {"read", "import"}

\* Cycle c has called writeState with nxt[c].
Writes(c) == pc[c] \in {"wopen", "wdata", "wrename"} \/ "tmp" \in did[c]

\* In a run over `accounts` with results r so far: the importer was invoked
\* for email e; it succeeded for e; every invocation for e failed.
Attempted(accounts, r, e) ==
  \E i \in 1..Len(r) : accounts[i].email = e /\ r[i] # "skip"

Imported(accounts, r, e) ==
  \E i \in 1..Len(r) : accounts[i].email = e /\ r[i] = "ok"

FailedFor(accounts, r, e) ==
  Attempted(accounts, r, e) /\ ~Imported(accounts, r, e)

\* The previous cycle ran alone on the snapshot of the cycle now in flight,
\* went through all its accounts, and this cycle runs alone as well.
Linked(c) == last.kind = "run" /\ alone[c] /\ pc[c] # "idle"

(* -------------------------------- C1 ---------------------------------- *)

\* C1: when the import of an account fails in a cycle, the watermark of that
\* account is the one the cycle read, in googleState, in the state the cycle
\* hands to writeState and in the state file the cycle leaves behind; and
\* the next cycle that runs on the same snapshot and reaches the loop
\* invokes the importer for that account again.
FailedImportKeepsWatermark ==
  \A c \in Cycles : \A e \in Emails(snap[c].accounts) :
    /\ (LeftLoop(c) /\ FailedFor(snap[c].accounts, res[c], e)) =>
         /\ Mark(gs[c], e) = Mark(rd[c].google, e)
         /\ Writes(c) => Mark(nxt[c].google, e) = Mark(rd[c].google, e)
         /\ alone[c] => FileMark(e) = Mark(rd[c].google, e)
    /\ (Linked(c) /\ LeftLoop(c)
        /\ FailedFor(last.snap.accounts, last.res, e)) =>
         Attempted(snap[c].accounts, res[c], e)

\* A cycle whose import of e failed has persisted its state, and the next
\* cycle on the same snapshot has imported e and persisted the watermark.
FailedImportRetried ==
  \E c \in Cycles : \E e \in Emails(snap[c].accounts) :
    /\ Linked(c) /\ last.ok
    /\ FailedFor(last.snap.accounts, last.res, e)
    /\ pc[c] = "resolved"
    /\ Imported(snap[c].accounts, res[c], e)
    /\ "rename" \in did[c]
    /\ FileMark(e) # ""

(* -------------------------------- C2 ---------------------------------- *)

\* C2: in a cycle where the import of account A failed, the loop still goes
\* through every account; an account B with another email, the only one of
\* the snapshot with that email, is imported when its updatedAtIso differs
\* from the watermark the cycle read; and when the import of B succeeds, the
\* state the cycle hands to writeState, and the state file once the cycle
\* has renamed it into place, hold B's updatedAtIso as B's watermark.
FailedImportIsolated ==
  \A c \in Cycles :
    LET accounts == snap[c].accounts IN
    \A i, j \in 1..Len(accounts) :
      ( /\ LeftLoop(c)
        /\ i <= Len(res[c]) /\ res[c][i] = "fail"
        /\ accounts[j].email # accounts[i].email
        /\ \A k \in 1..Len(accounts) :
             accounts[k].email = accounts[j].email => k = j )
      =>
        /\ Len(res[c]) = Len(accounts)
        /\ NeedsImport(rd[c].google, accounts[j]) => res[c][j] # "skip"
        /\ res[c][j] = "ok" =>
             /\ Writes(c) \/ pc[c] = "rejected"
             /\ Writes(c) =>
                  Mark(nxt[c].google, accounts[j].email) = accounts[j].updatedAtIso
             /\ pc[c] = "resolved" => "rename" \in did[c]
             /\ (alone[c] /\ "rename" \in did[c]) =>
                  FileMark(accounts[j].email) = accounts[j].updatedAtIso

\* The first account failed, the second one was imported and the cycle has
\* persisted the second one's watermark.
FailedThenImported ==
  \E c \in Cycles :
    /\ pc[c] = "resolved"
    /\ Len(snap[c].accounts) = 2
    /\ snap[c].accounts[1].email # snap[c].accounts[2].email
    /\ res[c] = <<"fail", "ok">>
    /\ "rename" \in did[c]
    /\ FileMark(snap[c].accounts[2].email) = snap[c].accounts[2].updatedAtIso
    /\ FileMark(snap[c].accounts[1].email) = ""

(* -------------------------------- C3 ---------------------------------- *)

\* Every import of the previous cycle succeeded and it resolved.
PreviousRunClean ==
  last.kind = "run" /\ last.ok /\ \A i \in 1..Len(last.res) : last.res[i] # "fail"

\* C3: after a cycle on a snapshot in which every import succeeded and the
\* state was persisted, a second cycle on the same snapshot invokes no
\* importer and does not call writeState.
SecondRunIdle ==
  \A c \in Cycles :
    (Linked(c) /\ PreviousRunClean) =>
      /\ "import" \notin did[c]
      /\ ~Writes(c)

\* No two accounts of the list share an email and differ in updatedAtIso.
NoConflictingDuplicates(accounts) ==
  \A i, j \in 1..Len(accounts) :
    accounts[i].email = accounts[j].email =>
      accounts[i].updatedAtIso = accounts[j].updatedAtIso

\* The same, for snapshots in which no email comes with two timestamps.
SecondRunIdleWithoutDuplicates ==
  \A c \in Cycles :
    (Linked(c) /\ PreviousRunClean /\ NoConflictingDuplicates(snap[c].accounts)
     /\ "creds" \in did[c]) =>
      /\ "import" \notin did[c]
      /\ ~Writes(c)

(* -------------------------------- C4 ---------------------------------- *)

\* Cycle c is between its first await and its settlement.
Running(c) == pc[c] \notin {"idle", "resolved", "rejected"}

\* C4: the scheduler never has two cycles of one process in flight at the
\* same time.
NoOverlappingCycles ==
  Cardinality({ c \in Cycles : Running(c) }) <= 1

(* -------------------------------- C5 ---------------------------------- *)

\* Unset, empty or white space only: the environment variable reads as "".
Blank(s) == \A k \in 1..Len(s) : s[k] = Space

\* One of the four gates is closed.
GateClosed ==
  \/ ~env.alfieMode
  \/ Blank(env.apiUrl)
  \/ Blank(env.gatewayToken)
  \/ ~env.gog

\* C5: with the feature flag off, the API URL empty, the gateway token
\* empty or the gog binary absent, a cycle returns normally without a remote
\* request, an import, a credentials write or a state write, and the files
\* stay as they were.
ClosedGateDoesNothing ==
  GateClosed =>
    /\ \A c \in Cycles :
         /\ pc[c] \in {"idle", "resolved"}
         /\ did[c] = {}
         /\ fout[c] = NoFetch
         /\ res[c] = <<>>
    /\ stateFile = AbsentFile
    /\ tmpFile = AbsentFile
    /\ credsFile = "absent"

\* A cycle has returned at a closed gate.
ReturnedAtGate ==
  GateClosed /\ \E c \in Cycles : pc[c] = "resolved" /\ did[c] = {}

(* -------------------------------- C6 ---------------------------------- *)

\* What cycle c received makes it return early: a non-success HTTP status, a
\* body that is not JSON or not of the schema, a Google integration that is
\* not configured or lacks the client id or secret, or no account with an
\* email left after normalization.
EarlyAbort(c) ==
  \/ fout[c].kind \in {"http", "badjson", "schema"}
  \/ /\ fout[c].kind \in {"unusable", "empty", "ok"}
     /\ \/ ~fout[c].google.configured
        \/ fout[c].google.clientId \in {Null, ""}
        \/ fout[c].google.clientSecret \in {Null, ""}
        \/ fout[c].blank

\* C6: a cycle that returns early for one of these reasons has resolved and
\* has done nothing but the request: no import, no credentials write, no
\* call of writeState.
EarlyAbortChangesNothing ==
  \A c \in Cycles :
    EarlyAbort(c) =>
      /\ pc[c] = "resolved"
      /\ did[c] = {"fetch"}
      /\ res[c] = <<>>
      /\ ~Writes(c)

\* A cycle has returned early while the state file holds watermarks.
AbortedOverState ==
  \E c \in Cycles :
    /\ EarlyAbort(c)
    /\ pc[c] = "resolved"
    /\ stateFile.kind = "json"
    /\ DOMAIN stateFile.data.google # {}

(* -------------------------------- C7 ---------------------------------- *)

\* C7: fetchSnapshot never raises: a network failure or a timeout of the
\* request ends the cycle like any other fetch failure, with a normal return.
FetchFailureReturns ==
  \A c \in Cycles : fout[c].kind = "neterr" => pc[c] = "resolved"

(* -------------------------------- C8 ---------------------------------- *)

\* C8: a cycle started by the scheduler that ends with an error, the initial
\* one or one started by a tick, does not end the scheduler: an armed timer
\* stays armed, and after the failed cycle a tick starts a new cycle.
SchedulerOutlivesFailure ==
  /\ [][sched = "timer" => sched' = "timer"]_vars
  /\ (\E c \in Cycles : pc[c] = "rejected")
       ~> (sched = "timer" /\ \E c \in Cycles : pc[c] = "fetch")

\* A cycle started by a tick was rejected by a failure inside writeState.
TickCycleRejectedInWrite ==
  \E c \in Cycles :
    /\ sched = "timer"
    /\ pc[c] = "rejected"
    /\ Writes(c)

(* -------------------------------- C9 ---------------------------------- *)

\* C9: whatever writeState calls are made, and wherever they fail, the
\* state file holds a complete document (or does not exist): never a
\* truncated or mixed one.
StateFileComplete == stateFile.kind \in {"absent", "json"}

(* -------------------------------- C10 --------------------------------- *)

\* An email in normalized form: not empty, no white space at either end, no
\* upper-case letter.
IsNormalized(e) ==
  /\ e # <<>>
  /\ e[1] # Space
  /\ e[Len(e)] # Space
  /\ \A k \in 1..Len(e) : e[k] \notin {"A", "B"}

\* Every account of the list with the email of account i has its timestamp.
OneStamp(accounts, i) ==
  \A k \in 1..Len(accounts) :
    accounts[k].email = accounts[i].email =>
      accounts[k].updatedAtIso = accounts[i].updatedAtIso

\* C10: every key of the google map, in memory and on disk, and every email
\* the loop goes through is a normalized, non-empty email; and an account
\* that was imported by the previous cycle is skipped by a cycle whose
\* snapshot is the same up to the case and surrounding white space of the
\* emails.
EmailsNormalized ==
  /\ \A e \in DOMAIN ParseState(stateFile).google : IsNormalized(e)
  /\ \A e \in DOMAIN ParseState(tmpFile).google : IsNormalized(e)
  /\ \A c \in Cycles :
       /\ \A e \in DOMAIN gs[c] : IsNormalized(e)
       /\ \A e \in DOMAIN nxt[c].google : IsNormalized(e)
       /\ \A e \in Emails(snap[c].accounts) : IsNormalized(e)
       /\ (Linked(c) /\ PreviousRunClean) =>
            \A i \in 1..Len(res[c]) :
              OneStamp(snap[c].accounts, i) => res[c][i] = "skip"

\* Two cycles in a row on snapshots that differ in the case or white space
\* of an email only: the second one has skipped every account and the
\* state file holds the one entry the first one wrote.
VariantSkipped ==
  \E c \in Cycles :
    /\ Linked(c) /\ PreviousRunClean
    /\ last.snap.canonical # snap[c].canonical
    /\ pc[c] = "resolved"
    /\ Len(res[c]) = 1 /\ res[c][1] = "skip"
    /\ DOMAIN stateFile.data.google = {snap[c].accounts[1].email}

(* -------------------------------- C11 --------------------------------- *)

\* Cycle c has called writeState (whether or not the call went through).
CalledWriteState(c) == LeftLoop(c) /\ (Writes(c) \/ pc[c] = "rejected")

\* Cycle c advanced a watermark, or its snapshot's version is not the
\* version it read.
MustPersist(c) ==
  \/ \E i \in 1..Len(res[c]) : res[c][i] = "ok"
  \/ rd[c].version # snap[c].version

\* C11: a cycle that has gone through its accounts calls writeState if and
\* only if an import of the cycle succeeded or the snapshot's version
\* differs from the stored one; when it resolves, it has renamed the new
\* state into place in exactly that case.
PersistIffChanged ==
  \A c \in Cycles :
    LeftLoop(c) =>
      /\ CalledWriteState(c) <=> MustPersist(c)
      /\ pc[c] = "resolved" => ("rename" \in did[c] <=> MustPersist(c))

\* A cycle that skipped every account has written the state because the
\* snapshot carried a new version.
NewVersionWritten ==
  \E c \in Cycles :
    /\ pc[c] = "resolved"
    /\ Len(res[c]) >= 1
    /\ \A i \in 1..Len(res[c]) : res[c][i] = "skip"
    /\ rd[c].version \in Versions
    /\ rd[c].version # snap[c].version
    /\ "rename" \in did[c]
    /\ stateFile.data.version = snap[c].version

(* -------------------------------- C12 --------------------------------- *)

\* The timestamp of the last account with email e whose import succeeded.
LastImported(accounts, r, e) ==
  LET i == CHOOSE i \in 1..Len(r) :
             /\ accounts[i].email = e /\ r[i] = "ok"
             /\ \A k \in 1..Len(r) :
                  (k > i /\ accounts[k].email = e) => r[k] # "ok"
  IN accounts[i].updatedAtIso

\* C12: the state a cycle hands to writeState, and the state file once the
\* cycle has renamed it into place, has the snapshot's version and the google
\* map the cycle read, with the entries of the emails imported in this cycle
\* set to the imported updatedAtIso and every other entry as it was read.
PersistedContent ==
  \A c \in Cycles :
    Writes(c) =>
      /\ nxt[c].version = snap[c].version
      /\ DOMAIN nxt[c].google =
           DOMAIN rd[c].google \cup
             { e \in Emails(snap[c].accounts) :
                 Imported(snap[c].accounts, res[c], e) }
      /\ \A e \in DOMAIN nxt[c].google :
           nxt[c].google[e] =
             IF Imported(snap[c].accounts, res[c], e)
               THEN LastImported(snap[c].accounts, res[c], e)
               ELSE rd[c].google[e]
      /\ (alone[c] /\ "rename" \in did[c]) => stateFile = JsonFile(nxt[c])

\* On a state with one entry, a cycle with a new version imported that
\* account, failed to import a second one, and wrote the first one's new
\* watermark, no entry for the second, under the new version.
WrittenWithFailure ==
  \E c \in Cycles :
    /\ pc[c] = "resolved" /\ "rename" \in did[c]
    /\ rd[c].version \in Versions /\ rd[c].version # snap[c].version
    /\ Len(snap[c].accounts) = 2
    /\ res[c] = <<"ok", "fail">>
    /\ DOMAIN rd[c].google = {snap[c].accounts[1].email}
    /\ DOMAIN stateFile.data.google = {snap[c].accounts[1].email}
    /\ stateFile.data.google[snap[c].accounts[1].email] =
         snap[c].accounts[1].updatedAtIso
    /\ stateFile.data.version = snap[c].version

(* -------------------------------- C13 --------------------------------- *)

\* C13: the state a cycle has written under its snapshot's version holds,
\* for every account of that snapshot, a watermark equal to the account's
\* updatedAtIso.
VersionFullyApplied ==
  \A c \in Cycles :
    "rename" \in did[c] =>
      \A i \in 1..Len(snap[c].accounts) :
        Mark(nxt[c].google, snap[c].accounts[i].email) =
          snap[c].accounts[i].updatedAtIso

\* The same, for the accounts whose import did not fail in the cycle and
\* whose email comes with one timestamp in the snapshot.
VersionAppliedWhereImported ==
  \A c \in Cycles :
    "rename" \in did[c] =>
      \A i \in 1..Len(snap[c].accounts) :
        (res[c][i] # "fail" /\ OneStamp(snap[c].accounts, i)) =>
          Mark(nxt[c].google, snap[c].accounts[i].email) =
            snap[c].accounts[i].updatedAtIso

(* -------------------------------- C14 --------------------------------- *)

\* A step in which a request, a credentials write, an import or a state
\* write fails.
FailStep ==
  \E c \in Cycles :
    \/ pc[c] = "fetch" /\ fout'[c].kind \in {"neterr", "http", "badjson", "schema"}
    \/ pc[c] # "rejected" /\ pc'[c] = "rejected"
    \/ pc[c] = "import" /\ res'[c][Len(res[c]) + 1] = "fail"

\* The state file holds, for every account of the snapshot the remote
\* serves, a watermark equal to the account's updatedAtIso.
Converged ==
  \A i \in 1..Len(remote.resp.snap.accounts) :
    FileMark(remote.resp.snap.accounts[i].email) =
      remote.resp.snap.accounts[i].updatedAtIso

\* C14: with the snapshot held fixed and the scheduler running, if from
\* some point on no request, import or write fails, then from some point on
\* every account has its updatedAtIso as persisted watermark and no cycle
\* invokes the importer.
EventuallyConverged ==
  \/ []<><<FailStep>>_vars
  \/ <>[](Converged /\ \A c \in Cycles : pc[c] # "import")

\* The same, for snapshots in which no email comes with two timestamps.
EventuallyConvergedWithoutDuplicates ==
  \/ []<><<FailStep>>_vars
  \/ <>[](~NoConflictingDuplicates(remote.resp.snap.accounts))
  \/ <>[](Converged /\ \A c \in Cycles : pc[c] # "import")

(* -------------------------------- C15 --------------------------------- *)

\* No getItem and no setItem has thrown so far.
WorkingStorage ==
  \A i \in 1..Len(calls) : calls[i].get = "ok" /\ calls[i].set # "threw"

\* C15: starting from no stored id and with a working storage, every call
\* so far has returned the same non-empty id and localStorage holds exactly
\* that id; and a call that found a stored id that is not blank returned it
\* (without surrounding white space) and did not call setItem.
InstanceIdStable ==
  /\ (~stored0.has /\ WorkingStorage /\ calls # <<>>) =>
       /\ \A i \in 1..Len(calls) : calls[i].returned = calls[1].returned
       /\ calls[1].returned # <<>>
       /\ localStorage = Item(calls[1].returned)
  /\ \A i \in 1..Len(calls) :
       (calls[i].get = "ok" /\ calls[i].found.has
        /\ ~Blank(calls[i].found.text)) =>
         /\ calls[i].returned = Trim(calls[i].found.text)
         /\ calls[i].set = "none"

\* Three calls on a storage that was empty: the first one created and
\* stored the id, the later ones found it.
ThreeCallsOneId ==
  /\ ~stored0.has /\ WorkingStorage
  /\ Len(calls) = 3
  /\ calls[1].set = "ok"
  /\ calls[2].set = "none" /\ calls[3].set = "none"
  /\ calls[3].returned = calls[1].returned
  /\ localStorage = Item(calls[1].returned)

(* -------------------------------- C16 --------------------------------- *)

\* Every watermark of the google map is the updatedAtIso of an entry whose
\* import has returned exit code 0.
AllImported(g) ==
  \A e \in DOMAIN g : <<e, g[e]>> \in gogStore.done

\* C16: starting from an empty state file, every watermark in the state
\* file, in the temporary file and in a state handed to writeState is the
\* updatedAtIso of an entry for that email whose import has succeeded
\* before.
WatermarkOnlyAfterImport ==
  /\ AllImported(ParseState(stateFile).google)
  /\ AllImported(ParseState(tmpFile).google)
  /\ \A c \in Cycles : AllImported(gs[c]) /\ AllImported(nxt[c].google)

\* A cycle whose first import failed and whose second one succeeded has
\* persisted the second account's watermark only.
OnlyImportedPersisted ==
  \E c \in Cycles :
    /\ pc[c] = "resolved" /\ "rename" \in did[c]
    /\ res[c] = <<"fail", "ok">>
    /\ snap[c].accounts[1].email # snap[c].accounts[2].email
    /\ DOMAIN stateFile.data.google = {snap[c].accounts[2].email}
    /\ gogStore.done =
         {<<snap[c].accounts[2].email, snap[c].accounts[2].updatedAtIso>>}

(* -------------------------------- C17 --------------------------------- *)

\* Where cycle c stands: the credentials file was written before any
\* import; the one import in flight is that of the account after those
\* that have returned or were skipped; writeState is called only when every
\* account has been gone through.
StepOrderState(c) ==
  /\ "import" \in did[c] => ("creds" \in did[c] /\ credsFile = "written")
  /\ pc[c] = "import" =>
       /\ idx[c] = Len(res[c]) + 1
       /\ idx[c] <= Len(snap[c].accounts)
  /\ Len(res[c]) <= Len(snap[c].accounts)
  /\ Writes(c) => Len(res[c]) = Len(snap[c].accounts)

\* What a step does to cycle c: the accounts are gone through in snapshot
\* order, at most one import returning per step; the state file changes
\* only by the rename of a cycle that has not renamed yet, and the
\* temporary file is not opened again after the cycle has opened it.
StepOrderStep(c) ==
  /\ pc'[c] # "idle" =>
       /\ Len(res'[c]) >= Len(res[c])
       /\ SubSeq(res'[c], 1, Len(res[c])) = res[c]
       /\ \A k \in (Len(res[c]) + 2)..Len(res'[c]) : res'[c][k] = "skip"
       /\ (Len(res'[c]) > Len(res[c]) /\ res'[c][Len(res[c]) + 1] # "skip")
            => pc[c] = "import"
  /\ (alone[c] /\ stateFile' # stateFile) =>
       (pc[c] = "wrename" /\ "rename" \notin did[c] /\ "rename" \in did'[c])
  /\ (alone[c] /\ "tmp" \in did[c] /\ pc[c] # "wdata" /\ pc[c] # "wrename")
       => tmpFile' = tmpFile
  /\ (pc[c] # "wopen" /\ pc'[c] = "wopen") => pc[c] \in {"read", "import"}

\* C17: in every cycle the credentials file is written before the first
\* import, imports are issued one at a time in snapshot order, and the
\* state file is written at most once, after every account was processed.
StepOrder ==
  /\ [](\A c \in Cycles : StepOrderState(c))
  /\ [][\A c \in Cycles : StepOrderStep(c)]_vars

\* A cycle has written the credentials, imported two accounts one after
\* the other and renamed the state into place.
FullCycleDone ==
  \E c \in Cycles :
    /\ pc[c] = "resolved"
    /\ did[c] = {"fetch", "creds", "import", "tmp", "rename"}
    /\ res[c] = <<"ok", "ok">>
    /\ credsFile = "written"
    /\ stateFile = JsonFile(nxt[c])

(* -------------------------------- C18 --------------------------------- *)

\* C18: when a cycle has skipped an account because the stored watermark
\* equals its updatedAtIso, and has not imported another entry for that
\* email since, the token gog holds for the email is the one of the entry
\* with that updatedAtIso.
SkipMatchesToolStore ==
  \A c \in Cycles : \A i \in 1..Len(res[c]) :
    ( /\ res[c][i] = "skip"
      /\ \A k \in (i + 1)..Len(res[c]) :
           snap[c].accounts[k].email = snap[c].accounts[i].email
             => res[c][k] # "ok" )
    => Mark(gogStore.holds, snap[c].accounts[i].email) =
         snap[c].accounts[i].updatedAtIso

(* -------------------------------- C19 --------------------------------- *)

\* The timestamps of the entries for email e that cycle c has imported.
ImportedStamps(c, e) ==
  { snap[c].accounts[i].updatedAtIso :
      i \in { k \in 1..Len(res[c]) :
                snap[c].accounts[k].email = e /\ res[c][k] = "ok" } }

\* Cycle c renames the document it has written into the place of the state
\* file in this step.
Publishes(c) ==
  /\ pc[c] = "wrename"
  /\ "rename" \in did'[c]
  /\ tmpFile = JsonFile(nxt[c])

\* C19: when a cycle puts its state in the place of the state file, every
\* watermark of the new file is the one the file held just before, or the
\* updatedAtIso of an entry this cycle imported; and the version is the one
\* the file held or the cycle's snapshot version.
NoLostUpdate ==
  [][\A c \in Cycles :
       Publishes(c) =>
         /\ \A e \in DOMAIN ParseState(stateFile).google
                       \cup DOMAIN ParseState(stateFile').google :
              \/ Mark(ParseState(stateFile').google, e) = FileMark(e)
              \/ Mark(ParseState(stateFile').google, e) \in ImportedStamps(c, e)
         /\ ParseState(stateFile').version
              \in {ParseState(stateFile).version, snap[c].version}
    ]_vars

(* -------------------------------- C20 --------------------------------- *)

\* The accounts with email e for which cycle c has invoked the importer:
\* those whose import has returned, and the one whose import is in flight.
Invocations(c, e) ==
  { i \in 1..Len(snap[c].accounts) :
      /\ snap[c].accounts[i].email = e
      /\ \/ i <= Len(res[c]) /\ res[c][i] # "skip"
         \/ pc[c] = "import" /\ i = idx[c] }

\* C20: within one cycle the importer is invoked at most once for each
\* normalized email.
OneInvocationPerEmail ==
  \A c \in Cycles : \A e \in Emails(snap[c].accounts) :
    Cardinality(Invocations(c, e)) <= 1

\* The same, over the emails that the snapshot lists once.
OneInvocationPerListedEmail ==
  \A c \in Cycles : \A e \in Emails(snap[c].accounts) :
    Cardinality({ i \in 1..Len(snap[c].accounts) :
                    snap[c].accounts[i].email = e }) = 1
      => Cardinality(Invocations(c, e)) <= 1

====
